---- MODULE Spec2Model ----
(***************************************************************************)
(* Model of the horaedb (CeresDB) Rust client: the avro schema resolver    *)
(* (model/row.rs), the row decoder (model/convert.rs), the response        *)
(* assembler (TryFrom<QueryResponsePb>) and the grpc gateway               *)
(* (rpc_client.rs).                                                        *)
(*                                                                         *)
(* Bytes are naturals 0..255, a buffer is a sequence of bytes.  A float or *)
(* double value is carried as its little-endian bit pattern (4 or 8 bytes).*)
(* Buffers of the model hold only ASCII text bytes or the byte 255, which  *)
(* is never valid UTF-8, and variable-length integers of at most 3 bytes.  *)
(***************************************************************************)
EXTENDS Integers, Sequences, FiniteSets, TLC

VARIABLES gateway, calls, wire, asm

vars == <<gateway, calls, wire, asm>>

\* Number of calls issued concurrently on one gateway handle.
MaxCalls == 2
\* Largest number of row buffers in one reply.
MaxRows == 2

(***************************************************************************)
(* Results                                                                 *)
(***************************************************************************)
Ok(v) == [ok |-> TRUE, val |-> v, err |-> ""]

Err(e) == [ok |-> FALSE, val |-> <<>>, err |-> e]

(***************************************************************************)
(* avro_rs::Schema                                                         *)
(***************************************************************************)
S(k) == [kind |-> k, sub |-> <<>>, n |-> 0]

UnionOf(vs) == [kind |-> "Union", sub |-> vs, n |-> 0]

Field(nm, s) == [name |-> nm, schema |-> s]

RecordOf(fields) == [kind |-> "Record", sub |-> fields, n |-> 0]

ArrayOf(s) == [kind |-> "Array", sub |-> <<s>>, n |-> 0]

MapOf(s) == [kind |-> "Map", sub |-> <<s>>, n |-> 0]

FixedOf(size) == [kind |-> "Fixed", sub |-> <<>>, n |-> size]

EnumOf(nsymbols) == [kind |-> "Enum", sub |-> <<>>, n |-> nsymbols]

DecimalOf(inner) == [kind |-> "Decimal", sub |-> <<inner>>, n |-> 0]

PrimitiveKinds ==
    {"Null", "Boolean", "Int", "Long", "Float", "Double", "Bytes", "String",
     "TimestampMillis"}

\* avro_rs::types::Value
V(t, v) == [t |-> t, v |-> v]

(***************************************************************************)
(* The avro binary encoding, as avro_rs reads it (from_avro_datum).        *)
(***************************************************************************)
ZigZag(n) == IF n >= 0 THEN 2 * n ELSE -2 * n - 1

UnZigZag(z) == IF z % 2 = 0 THEN z \div 2 ELSE -((z + 1) \div 2)

RECURSIVE EncodeVariable(_)
EncodeVariable(z) ==
    IF z < 128 THEN <<z>> ELSE <<128 + (z % 128)>> \o EncodeVariable(z \div 128)

EncodeLong(n) == EncodeVariable(ZigZag(n))

Dec(v, rest) == [ok |-> TRUE, val |-> v, rest |-> rest, err |-> ""]

DecErr(e) == [ok |-> FALSE, val |-> <<>>, rest |-> <<>>, err |-> e]

\* decode_variable: 7 bits per byte, least significant group first, the high
\* bit set on every byte but the last; more than 10 bytes overflow.
RECURSIVE DecodeVariable(_, _, _, _)
DecodeVariable(raw, j, mult, acc) ==
    IF j > 9 THEN DecErr("integer overflow")
    ELSE IF raw = <<>> THEN DecErr("failed to fill whole buffer")
    ELSE LET b == Head(raw)
             acc2 == acc + (b % 128) * mult
         IN  IF b < 128 THEN Dec(acc2, Tail(raw))
             ELSE DecodeVariable(Tail(raw), j + 1, mult * 128, acc2)

\* zag_i64: the zigzag value of the variable-length integer read
ZagOf(r) == IF r.ok THEN Dec(UnZigZag(r.val), r.rest) ELSE r

DecodeLong(raw) == ZagOf(DecodeVariable(raw, 0, 1, 0))

\* zag_i32: zag_i64, then i32::try_from
I32Of(r) ==
    IF ~r.ok THEN r
    ELSE IF r.val > 2147483647 \/ r.val < -2147483647 - 1 THEN DecErr("int out of range")
    ELSE r

DecodeInt(raw) == I32Of(DecodeLong(raw))

\* read_exact of n bytes
ReadExact(raw, n) ==
    IF Len(raw) < n THEN DecErr("failed to fill whole buffer")
    ELSE Dec(SubSeq(raw, 1, n), SubSeq(raw, n + 1, Len(raw)))

\* decode_len: a long that must fit usize, then that many bytes
ReadLen(l) ==
    IF ~l.ok THEN l
    ELSE IF l.val < 0 THEN DecErr("invalid length")
    ELSE ReadExact(l.rest, l.val)

DecodeLenBytes(raw) == ReadLen(DecodeLong(raw))

Utf8Valid(bs) == \A i \in 1..Len(bs) : bs[i] < 128

\* What was read, r, as a Value of variant t.
AsValue(t, r) == IF r.ok THEN Dec(V(t, r.val), r.rest) ELSE r

\* String::from_utf8, and for a uuid Uuid::from_str, of the bytes read.
AsText(t, r) ==
    IF ~r.ok THEN r
    ELSE IF ~Utf8Valid(r.val) THEN DecErr("invalid utf-8")
    ELSE IF t = "Uuid" /\ Len(r.val) < 32 THEN DecErr("invalid uuid")
    ELSE Dec(V(t, r.val), r.rest)

\* The index read, r, as a symbol of an enum of nsymbols symbols.
AsEnum(nsymbols, r) ==
    IF ~r.ok THEN r
    ELSE IF r.val < 0 \/ r.val >= nsymbols THEN DecErr("invalid enum index")
    ELSE Dec(V("Enum", r.val), r.rest)

RECURSIVE Decode(_, _), DecodeFields(_, _, _), FieldDecoded(_, _, _),
          DecodeItems(_, _, _, _, _), ItemKey(_, _, _, _), ItemDecoded(_, _, _, _, _, _),
          DecodeBlocks(_, _, _, _), BlockCount(_, _, _, _), BlockSize(_, _, _, _, _),
          BlockDecoded(_, _, _), UnionBranch(_, _)

\* The fields of a record, in declared order.
DecodeFields(fields, raw, acc) ==
    IF fields = <<>> THEN Dec(acc, raw)
    ELSE FieldDecoded(fields, acc, Decode(Head(fields).schema, raw))

FieldDecoded(fields, acc, x) ==
    IF ~x.ok THEN x
    ELSE DecodeFields(Tail(fields), x.rest, Append(acc, <<Head(fields).name, x.val>>))

\* One block of `left` array items or map entries (a map entry: key, value).
DecodeItems(inner, raw, isMap, left, acc) ==
    IF left = 0 THEN Dec(acc, raw)
    ELSE IF isMap THEN ItemKey(inner, left, acc, DecodeLenBytes(raw))
    ELSE ItemDecoded(inner, FALSE, left, acc, <<>>, Decode(inner, raw))

ItemKey(inner, left, acc, k) ==
    IF ~k.ok THEN k
    ELSE IF ~Utf8Valid(k.val) THEN DecErr("invalid utf-8")
    ELSE ItemDecoded(inner, TRUE, left, acc, k.val, Decode(inner, k.rest))

ItemDecoded(inner, isMap, left, acc, key, x) ==
    IF ~x.ok THEN x
    ELSE DecodeItems(inner, x.rest, isMap, left - 1,
                     Append(acc, IF isMap THEN <<key, x.val>> ELSE x.val))

\* The blocks of an array or a map: a count (negative: followed by a byte
\* size), the items, until a count of 0.
DecodeBlocks(inner, raw, isMap, acc) == BlockCount(inner, isMap, acc, DecodeLong(raw))

BlockCount(inner, isMap, acc, c) ==
    IF ~c.ok THEN c
    ELSE IF c.val = 0 THEN Dec(acc, c.rest)
    ELSE IF c.val < 0 THEN BlockSize(inner, isMap, acc, -c.val, DecodeLong(c.rest))
    ELSE BlockDecoded(inner, isMap, DecodeItems(inner, c.rest, isMap, c.val, acc))

BlockSize(inner, isMap, acc, cnt, sz) ==
    IF ~sz.ok THEN sz
    ELSE BlockDecoded(inner, isMap, DecodeItems(inner, sz.rest, isMap, cnt, acc))

BlockDecoded(inner, isMap, b) ==
    IF ~b.ok THEN b ELSE DecodeBlocks(inner, b.rest, isMap, b.val)

\* The branch of a union the index read, i, selects.
UnionBranch(schema, i) ==
    IF ~i.ok THEN i
    ELSE IF i.val < 0 \/ i.val >= Len(schema.sub) THEN DecErr("union index out of bounds")
    ELSE AsValue("Union", Decode(schema.sub[i.val + 1], i.rest))

\* avro_rs decode(schema, reader)
Decode(schema, raw) ==
    LET k == schema.kind
    IN  CASE k = "Null" -> Dec(V("Null", <<>>), raw)
          [] k = "Boolean" ->
                IF raw = <<>> THEN DecErr("failed to fill whole buffer")
                ELSE IF Head(raw) = 0 THEN Dec(V("Boolean", FALSE), Tail(raw))
                ELSE IF Head(raw) = 1 THEN Dec(V("Boolean", TRUE), Tail(raw))
                ELSE DecErr("invalid bool")
          [] k \in {"Int", "Date", "TimeMillis"} -> AsValue(k, DecodeInt(raw))
          [] k \in {"Long", "TimestampMillis", "TimeMicros", "TimestampMicros"} ->
                AsValue(k, DecodeLong(raw))
          [] k = "Float" -> AsValue(k, ReadExact(raw, 4))
          [] k = "Double" -> AsValue(k, ReadExact(raw, 8))
          [] k = "Bytes" -> AsValue(k, DecodeLenBytes(raw))
          [] k \in {"String", "Uuid"} -> AsText(k, DecodeLenBytes(raw))
          [] k = "Fixed" -> AsValue(k, ReadExact(raw, schema.n))
          [] k = "Duration" -> AsValue(k, ReadExact(raw, 12))
          [] k = "Decimal" ->
                IF schema.sub[1].kind = "Fixed"
                THEN AsValue(k, ReadExact(raw, schema.sub[1].n))
                ELSE AsValue(k, DecodeLenBytes(raw))
          [] k = "Enum" -> AsEnum(schema.n, DecodeInt(raw))
          [] k = "Union" -> UnionBranch(schema, DecodeLong(raw))
          [] k = "Array" -> AsValue(k, DecodeBlocks(schema.sub[1], raw, FALSE, <<>>))
          [] k = "Map" -> AsValue(k, DecodeBlocks(schema.sub[1], raw, TRUE, <<>>))
          [] k = "Record" -> AsValue(k, DecodeFields(schema.sub, raw, <<>>))

\* avro_rs::from_avro_datum(schema, reader, None): bytes left over are not an error.
FromAvroDatum(schema, raw) == Decode(schema, raw)

(***************************************************************************)
(* AvroSchema::parse_str (avro_rs): the schema text is the empty string,   *)
(* a text that is no schema, or the JSON of a schema tree.  The parser     *)
(* rejects a union that holds a union or two branches of one kind.         *)
(***************************************************************************)
NoTree == S("None")

EmptyContent == [text |-> "", tree |-> NoTree]

GarbageContent == [text |-> "not a schema", tree |-> NoTree]

Json(tree) == [text |-> "json", tree |-> tree]

RECURSIVE ValidAvro(_)
ValidAvro(s) ==
    CASE s.kind = "Union" ->
            /\ \A i \in 1..Len(s.sub) : s.sub[i].kind # "Union" /\ ValidAvro(s.sub[i])
            /\ \A i, j \in 1..Len(s.sub) : i # j => s.sub[i].kind # s.sub[j].kind
      [] s.kind = "Record" -> \A i \in 1..Len(s.sub) : ValidAvro(s.sub[i].schema)
      [] s.kind \in {"Array", "Map", "Decimal"} -> ValidAvro(s.sub[1])
      [] OTHER -> s.kind # "None"

AvroParseStr(content) ==
    IF content.text # "json" THEN Err("Failed to parse schema")
    ELSE IF ~ValidAvro(content.tree) THEN Err("Invalid union schema")
    ELSE Ok(content.tree)

\* The name -> position lookup the avro parser builds for a record.
AvroLookup(fields) ==
    [nm \in {fields[i].name : i \in 1..Len(fields)} |->
        (CHOOSE i \in 1..Len(fields) : fields[i].name = nm) - 1]

(***************************************************************************)
(* model/row.rs                                                            *)
(***************************************************************************)
ColumnDataType ==
    {"Null", "TimestampMillis", "Double", "Float", "Bytes", "String", "Int64",
     "Int32", "Boolean"}

CompositeKinds ==
    {"Array", "Map", "Record", "Enum", "Fixed", "Decimal", "Uuid", "Date",
     "TimeMillis", "TimeMicros", "TimestampMicros", "Duration"}

\* Row::with_column_num: an empty row (the argument is a capacity).
RowWithColumnNum(n) == [datums |-> <<>>]

\* impl TryFrom<&avro_rs::Schema> for ColumnDataType
RECURSIVE ColumnDataTypeTryFrom(_)
ColumnDataTypeTryFrom(schema) ==
    LET k == schema.kind
    IN  CASE k = "Null" -> Ok("Null")
          [] k = "Boolean" -> Ok("Boolean")
          [] k = "Int" -> Ok("Int32")
          [] k = "Long" -> Ok("Int64")
          [] k = "Float" -> Ok("Float")
          [] k = "Double" -> Ok("Double")
          [] k = "Bytes" -> Ok("Bytes")
          [] k = "String" -> Ok("String")
          [] k = "TimestampMillis" -> Ok("TimestampMillis")
          [] k = "Union" ->
                IF Len(schema.sub) # 2
                THEN Err("invalid avro union schema, expect at least two columns")
                ELSE IF schema.sub[1].kind = "Null"
                     THEN ColumnDataTypeTryFrom(schema.sub[2])
                     ELSE Err("invalid avro union schema, expect the first column is null")
          [] k \in CompositeKinds -> Err("invalid avro basic schema")

\* Schema::default
SchemaDefault == [column_schemas |-> <<>>, lookup |-> <<>>]

\* Schema::num_cols
NumCols(schema) == Len(schema.column_schemas)

\* The loop of Schema::try_from over the record's fields; t is the data type
\* resolved for the first of the fields left.
RECURSIVE ResolveFields(_, _), PushColumnSchema(_, _, _)
ResolveFields(fields, column_schemas) ==
    IF fields = <<>> THEN Ok(column_schemas)
    ELSE PushColumnSchema(fields, column_schemas, ColumnDataTypeTryFrom(Head(fields).schema))

PushColumnSchema(fields, column_schemas, t) ==
    IF ~t.ok THEN Err(t.err)
    ELSE ResolveFields(Tail(fields),
             Append(column_schemas, [data_type |-> t.val, name |-> Head(fields).name]))

\* The Schema of the column schemas resolved, c, with the record's lookup.
SchemaOf(avro_schema, c) ==
    IF ~c.ok THEN Err(c.err)
    ELSE Ok([column_schemas |-> c.val, lookup |-> AvroLookup(avro_schema.sub)])

\* impl TryFrom<&avro_rs::Schema> for Schema
SchemaTryFrom(avro_schema) ==
    IF avro_schema.kind = "Record"
    THEN SchemaOf(avro_schema, ResolveFields(avro_schema.sub, <<>>))
    ELSE Err("Unsupported schema")

\* QueryResponse::with_capacity
QueryResponseWithCapacity(schema, n) ==
    [schema |-> schema, rows |-> <<>>, affected_rows |-> 0]

\* QueryResponse::has_schema
HasSchema(resp) == resp.schema.column_schemas # <<>>

(***************************************************************************)
(* model/convert.rs                                                        *)
(***************************************************************************)
Datum(d, v) == [d |-> d, v |-> v]

\* value_to_datum
RECURSIVE ValueToDatum(_)
\* ValueToDatum with a timestamp turned into an Int64 datum.
ValueToDatum_TimestampAsInt64(value) ==
    LET t == value.t
    IN  CASE t = "Null" -> Ok(Datum("Null", <<>>))
          [] t = "TimestampMillis" -> Ok(Datum("Int64", value.v))
          [] t = "Double" -> Ok(Datum("Double", value.v))
          [] t = "Float" -> Ok(Datum("Float", value.v))
          [] t = "Bytes" -> Ok(Datum("Varbinary", value.v))
          [] t = "String" -> Ok(Datum("String", value.v))
          [] t = "Long" -> Ok(Datum("Int64", value.v))
          [] t = "Int" -> Ok(Datum("Int32", value.v))
          [] t = "Boolean" -> Ok(Datum("Boolean", value.v))
          [] t = "Union" -> ValueToDatum(value.v)
          [] OTHER -> Err("Unsupported value type")

ValueToDatum(value) ==
    LET t == value.t
    IN  CASE t = "Null" -> Ok(Datum("Null", <<>>))
          [] t = "TimestampMillis" -> Ok(Datum("Timestamp", value.v))
          [] t = "Double" -> Ok(Datum("Double", value.v))
          [] t = "Float" -> Ok(Datum("Float", value.v))
          [] t = "Bytes" -> Ok(Datum("Varbinary", value.v))
          [] t = "String" -> Ok(Datum("String", value.v))
          [] t = "Long" -> Ok(Datum("Int64", value.v))
          [] t = "Int" -> Ok(Datum("Int32", value.v))
          [] t = "Boolean" -> Ok(Datum("Boolean", value.v))
          [] t = "Union" -> ValueToDatum(value.v)
          [] t \in {"Fixed", "Enum", "Array", "Map", "Record", "Date", "Decimal",
                    "TimeMillis", "TimeMicros", "TimestampMicros", "Duration",
                    "Uuid"} -> Err("Unsupported value type")

RowResult(ok, row, err) == [ok |-> ok, row |-> row, err |-> err]

\* The loop of parse_one_row over the record's columns: row is the caller's
\* row, which keeps the datums pushed before a failure; d is the datum of
\* the first of the columns left.
RECURSIVE PushColumns(_, _), PushDatum(_, _, _)
PushColumns(cols, row) ==
    IF cols = <<>> THEN RowResult(TRUE, row, "")
    ELSE PushDatum(cols, row, ValueToDatum(Head(cols)[2]))

PushDatum(cols, row, d) ==
    IF ~d.ok THEN RowResult(FALSE, row, d.err)
    ELSE PushColumns(Tail(cols), [row EXCEPT !.datums = Append(@, d.val)])

\* parse_one_row, from the value from_avro_datum returned on
RecordToRow(record, row) ==
    IF ~record.ok THEN RowResult(FALSE, row, record.err)
    ELSE IF record.val.t = "Record" THEN PushColumns(record.val.v, row)
    ELSE RowResult(FALSE, row, "invalid avro row, expect record")

\* parse_one_row
ParseOneRow(schema, raw, row) == RecordToRow(FromAvroDatum(schema, raw), row)

(***************************************************************************)
(* errors: Error::{Server, Client, Unknown}                                *)
(***************************************************************************)
NoError == [kind |-> "None", code |-> 0, msg |-> ""]

ErrorUnknown(msg) == [kind |-> "Unknown", code |-> 0, msg |-> msg]

ErrorClient(msg) == [kind |-> "Client", code |-> 0, msg |-> msg]

ErrorServer(code, msg) == [kind |-> "Server", code |-> code, msg |-> msg]

\* A call's or a conversion's result with what it did on the way: the number
\* of schema texts parsed and of row buffers handed to parse_one_row.
Done(val, parses, decodes) ==
    [ok |-> TRUE, val |-> val, err |-> NoError, parses |-> parses, decodes |-> decodes]

Failed(e, parses, decodes) ==
    [ok |-> FALSE, val |-> <<>>, err |-> e, parses |-> parses, decodes |-> decodes]

RowsResult(ok, resp, err, decodes) ==
    [ok |-> ok, resp |-> resp, err |-> err, decodes |-> decodes]

\* The row loop of the assembler: one parse_one_row per buffer, in input
\* order, the first failure ending the loop; n counts the buffers handed to
\* parse_one_row, r is the result for the first of the buffers left.
RECURSIVE DecodeRows(_, _, _, _), PushRow(_, _, _, _, _)
DecodeRows(avro_schema, resp, raw_rows, n) ==
    IF raw_rows = <<>> THEN RowsResult(TRUE, resp, "", n)
    ELSE PushRow(avro_schema, resp, raw_rows, n,
                 ParseOneRow(avro_schema, Head(raw_rows),
                             RowWithColumnNum(NumCols(resp.schema))))

\* PushRow with the new row put in front of the rows decoded so far.
PushRow_Prepend(avro_schema, resp, raw_rows, n, r) ==
    IF ~r.ok THEN RowsResult(FALSE, resp, r.err, n + 1)
    ELSE DecodeRows(avro_schema, [resp EXCEPT !.rows = <<r.row>> \o @],
                    Tail(raw_rows), n + 1)

\* PushRow going on to the next buffer when one fails to decode.
PushRow_SkipFailed(avro_schema, resp, raw_rows, n, r) ==
    IF ~r.ok THEN DecodeRows(avro_schema, resp, Tail(raw_rows), n + 1)
    ELSE DecodeRows(avro_schema, [resp EXCEPT !.rows = Append(@, r.row)],
                    Tail(raw_rows), n + 1)

PushRow(avro_schema, resp, raw_rows, n, r) ==
    IF ~r.ok THEN RowsResult(FALSE, resp, r.err, n + 1)
    ELSE DecodeRows(avro_schema, [resp EXCEPT !.rows = Append(@, r.row)],
                    Tail(raw_rows), n + 1)

\* The end of try_from: the response, or the row loop's error as Error::Unknown.
Assembled(d) ==
    IF ~d.ok THEN Failed(ErrorUnknown(d.err), 1, d.decodes) ELSE Done(d.resp, 1, d.decodes)

\* WithSchema decoding the rows before it looks at the Schema's result.
WithSchema_DecodeFirst(pb_resp, avro_schema, schema) ==
    LET d == DecodeRows(avro_schema,
                 QueryResponseWithCapacity(IF schema.ok THEN schema.val ELSE SchemaDefault,
                                           Len(pb_resp.rows)),
                 pb_resp.rows, 0)
    IN  IF ~schema.ok THEN Failed(ErrorUnknown(schema.err), 1, d.decodes)
        ELSE Assembled(d)

\* try_from once the schema text is parsed: the Schema, then the rows.
WithSchema(pb_resp, avro_schema, schema) ==
    IF ~schema.ok THEN Failed(ErrorUnknown(schema.err), 1, 0)
    ELSE Assembled(DecodeRows(avro_schema,
                              QueryResponseWithCapacity(schema.val, Len(pb_resp.rows)),
                              pb_resp.rows, 0))

WithAvroSchema(pb_resp, avro_schema) ==
    IF ~avro_schema.ok THEN Failed(ErrorUnknown(avro_schema.err), 1, 0)
    ELSE WithSchema(pb_resp, avro_schema.val, SchemaTryFrom(avro_schema.val))

\* TryFromPb returning QueryResponse::default() for an empty schema text.
TryFromPb_DropsAffectedRows(pb_resp) ==
    IF pb_resp.schema_content.text = ""
    THEN Done([schema |-> SchemaDefault, rows |-> <<>>, affected_rows |-> 0], 0, 0)
    ELSE WithAvroSchema(pb_resp, AvroParseStr(pb_resp.schema_content))

\* impl TryFrom<QueryResponsePb> for QueryResponse
TryFromPb(pb_resp) ==
    IF pb_resp.schema_content.text = ""
    THEN Done([schema |-> SchemaDefault, rows |-> <<>>,
               affected_rows |-> pb_resp.affected_rows], 0, 0)
    ELSE WithAvroSchema(pb_resp, AvroParseStr(pb_resp.schema_content))

(***************************************************************************)
(* rpc_client.rs                                                           *)
(***************************************************************************)
RPC_HEADER_TENANT_KEY == "x-ceresdb-access-tenant"

\* errors::is_ok: the one reserved ok code.
OkCode == 200

IsOk(code) == code = OkCode

\* impl From<grpcio::Error> for Error, applied by `?` to a failure of the
\* transport: a client-side failure.
FromGrpcError(e) == ErrorClient(e)

\* MetadataBuilder::add_str (grpcio): a header value must be printable ASCII.
AddStrLegal(value) == \A i \in 1..Len(value) : value[i] >= 32 /\ value[i] <= 126

OkE(v) == [ok |-> TRUE, val |-> v, err |-> NoError]

ErrE(e) == [ok |-> FALSE, val |-> <<>>, err |-> e]

\* MakeCallOption taking any tenant for a legal header value.
MakeCallOption_NoValidation(self, ctx) ==
    OkE([timeout |-> self.rpc_opts.read_timeout,
         headers |-> <<<<RPC_HEADER_TENANT_KEY, ctx.tenant>>>>])

\* RpcClient::make_call_option
MakeCallOption(self, ctx) ==
    IF ~AddStrLegal(ctx.tenant) THEN ErrE(ErrorClient("invalid tenant"))
    ELSE OkE([timeout |-> self.rpc_opts.read_timeout,
              headers |-> <<<<RPC_HEADER_TENANT_KEY, ctx.tenant>>>>])

\* impl From<QueryRequest> for QueryRequestPb
ToQueryRequestPb(req) == [metrics |-> req.metrics, ql |-> req.ql]

\* convert::parse_queried_rows(schema_content, rows): the assembler of a
\* non-empty schema text; its error is a String, carried here in err.msg.
ParseQueriedRows(schema_content, raw_rows) ==
    WithAvroSchema([schema_content |-> schema_content, rows |-> raw_rows],
                   AvroParseStr(schema_content))

\* MapErrClient wrapping the assembler's error as Error::Unknown.
MapErrClient_Unknown(r) ==
    IF r.ok THEN r ELSE Failed(ErrorUnknown(r.err.msg), r.parses, r.decodes)

\* map_err(Error::Client) of the assembler's result
MapErrClient(r) ==
    IF r.ok THEN r ELSE Failed(ErrorClient(r.err.msg), r.parses, r.decodes)

\* QueryOutcome looking at the schema text before the header.
QueryOutcome_HeaderAfterSchema(resp) ==
    IF resp.schema_content.text = ""
    THEN Done([schema |-> SchemaDefault, rows |-> <<>>,
               affected_rows |-> resp.affected_rows], 0, 0)
    ELSE IF ~IsOk(resp.header.code)
         THEN Failed(ErrorServer(resp.header.code, resp.header.error), 0, 0)
         ELSE MapErrClient(ParseQueriedRows(resp.schema_content, resp.rows))

\* RpcClient::query, from the reply on
QueryOutcome(resp) ==
    IF ~IsOk(resp.header.code)
    THEN Failed(ErrorServer(resp.header.code, resp.header.error), 0, 0)
    ELSE IF resp.schema_content.text = ""
         THEN Done([schema |-> SchemaDefault, rows |-> <<>>,
                    affected_rows |-> resp.affected_rows], 0, 0)
         ELSE MapErrClient(ParseQueriedRows(resp.schema_content, resp.rows))

\* The metric names of a write request's protobuf form.
MetricNames(req_pb) == [i \in 1..Len(req_pb.metrics) |-> req_pb.metrics[i].metric]

\* RpcClient::write, from the reply on
WriteOutcome(req_pb, resp) ==
    IF ~IsOk(resp.header.code)
    THEN Failed(ErrorServer(resp.header.code, resp.header.error), 0, 0)
    ELSE Done([metrics |-> MetricNames(req_pb), success |-> resp.success,
               failed |-> resp.failed], 0, 0)

(***************************************************************************)
(* Inputs                                                                  *)
(***************************************************************************)
Nullable(s) == UnionOf(<<S("Null"), s>>)

\* 3.14 and 1.0 as IEEE-754 bit patterns, least significant byte first.
Double_3_14 == <<31, 133, 235, 81, 184, 30, 9, 64>>

Float_1_0 == <<0, 0, 128, 63>>

\* The i-th sample value (i is 1 or 2) of a supported field schema.
RECURSIVE SampleValue(_, _)
SampleValue(s, i) ==
    LET k == s.kind
    IN  CASE k = "Null" -> V("Null", <<>>)
          [] k = "Boolean" -> V(k, i = 1)
          [] k = "Int" -> V(k, IF i = 1 THEN 7 ELSE -1)
          [] k = "Long" -> V(k, IF i = 1 THEN 1000 ELSE -3)
          [] k = "TimestampMillis" -> V(k, IF i = 1 THEN 1000 ELSE 0)
          [] k = "Float" -> V(k, IF i = 1 THEN Float_1_0 ELSE <<0, 0, 0, 0>>)
          [] k = "Double" -> V(k, IF i = 1 THEN Double_3_14 ELSE <<0, 0, 0, 0, 0, 0, 0, 0>>)
          [] k = "Bytes" -> V(k, IF i = 1 THEN <<1, 255>> ELSE <<>>)
          [] k = "String" -> V(k, IF i = 1 THEN <<97, 98>> ELSE <<>>)
          [] k = "Union" ->
                V("Union", IF i = 1 THEN SampleValue(s.sub[2], 1) ELSE V("Null", <<>>))

\* The avro writer of the server, for the supported kinds.
RECURSIVE Encode(_, _)
Encode(s, value) ==
    LET k == s.kind
    IN  CASE k = "Null" -> <<>>
          [] k = "Boolean" -> IF value.v THEN <<1>> ELSE <<0>>
          [] k \in {"Int", "Long", "TimestampMillis"} -> EncodeLong(value.v)
          [] k \in {"Float", "Double"} -> value.v
          [] k \in {"Bytes", "String"} -> EncodeLong(Len(value.v)) \o value.v
          [] k = "Union" ->
                LET b == CHOOSE j \in 1..Len(s.sub) : s.sub[j].kind = value.v.t
                IN  EncodeLong(b - 1) \o Encode(s.sub[b], value.v)

RECURSIVE EncodeRow(_, _)
EncodeRow(fields, values) ==
    IF fields = <<>> THEN <<>>
    ELSE Encode(Head(fields).schema, Head(values)) \o EncodeRow(Tail(fields), Tail(values))

\* The i-th sample row of a record of supported fields.
SampleRow(fields, i) == [j \in 1..Len(fields) |-> SampleValue(fields[j].schema, i)]

SupportedFieldSchemas ==
    {S(k) : k \in PrimitiveKinds} \cup {Nullable(S(k)) : k \in PrimitiveKinds \ {"Null"}}

\* Field schemas the resolver rejects: malformed unions and composite kinds.
BadUnionSchemas ==
    {UnionOf(<<S("Long"), S("Null")>>), UnionOf(<<S("Null"), S("Long"), S("String")>>),
     UnionOf(<<S("Null")>>), UnionOf(<<S("String"), S("Long")>>)}

CompositeSchemas ==
    {ArrayOf(S("Long")), MapOf(S("Long")), RecordOf(<<Field("x", S("Long"))>>),
     EnumOf(2), FixedOf(2), DecimalOf(S("Bytes")), S("Uuid"), S("Date"),
     S("TimeMillis"), S("TimeMicros"), S("TimestampMicros"), S("Duration"),
     Nullable(ArrayOf(S("Long")))}

\* Field schemas the avro parser itself rejects.
UnparsableSchemas ==
    {Nullable(Nullable(S("Long"))), UnionOf(<<S("Long"), S("Long")>>)}

\* record{ts: nullable timestamp-millis, value: double}
ScenarioSchema ==
    RecordOf(<<Field("ts", Nullable(S("TimestampMillis"))), Field("value", S("Double"))>>)

SupportedRecords ==
    {RecordOf(<<Field("c", f)>>) : f \in SupportedFieldSchemas}
    \cup {RecordOf(<<>>), ScenarioSchema,
          RecordOf(<<Field("id", S("Int")), Field("name", Nullable(S("String")))>>)}

RejectedRecords ==
    {RecordOf(<<Field("c", f)>>) : f \in BadUnionSchemas \cup CompositeSchemas}
    \cup {RecordOf(<<Field("a", S("Long")), Field("b", ArrayOf(S("Long")))>>),
          RecordOf(<<Field("a", S("Long")), Field("b", UnionOf(<<S("Long"), S("Null")>>))>>)}

SchemaTrees ==
    SupportedRecords \cup RejectedRecords
    \cup {RecordOf(<<Field("c", f)>>) : f \in UnparsableSchemas}
    \cup {S("Long"), Nullable(S("Long"))}

SchemaContents == {EmptyContent, GarbageContent} \cup {Json(t) : t \in SchemaTrees}

\* A buffer that does not decode as the row b was encoded from.
Damaged(b) == IF b = <<>> THEN <<255>> ELSE SubSeq(b, 1, Len(b) - 1)

\* The row buffers tried with a schema text: for a record of supported
\* fields its two sample rows and a damaged one, else two arbitrary buffers.
RowBuffers(content) ==
    IF content.tree \in SupportedRecords
    THEN LET f == content.tree.sub
             b1 == EncodeRow(f, SampleRow(f, 1))
             b2 == EncodeRow(f, SampleRow(f, 2))
         IN  {b1, b2, Damaged(b1)}
             \cup (IF f = <<Field("c", S("String"))>> THEN {<<2, 255>>} ELSE {})
             \cup (IF f = <<>> THEN {<<2, 97>>} ELSE {})
    ELSE {<<0>>, <<2, 97>>}

RowSeqs(content) == UNION {[1..n -> RowBuffers(content)] : n \in 0..MaxRows}

Headers == {[code |-> OkCode, error |-> ""], [code |-> 500, error |-> "overloaded"]}

NoReply ==
    [kind |-> "none", header |-> [code |-> 0, error |-> ""], schema_content |-> EmptyContent,
     rows |-> <<>>, affected_rows |-> 0, success |-> 0, failed |-> 0]

QueryReply(h, c, r, a) ==
    [NoReply EXCEPT !.kind = "query", !.header = h, !.schema_content = c, !.rows = r,
                    !.affected_rows = a]

WriteReply(h, s, f) ==
    [NoReply EXCEPT !.kind = "write", !.header = h, !.success = s, !.failed = f]

QueryReplies ==
    UNION {{QueryReply(h, c, r, a) : h \in Headers, r \in RowSeqs(c), a \in {0, 5}} :
           c \in SchemaContents}

WriteReplies == {WriteReply(h, s, f) : h \in Headers, s \in {0, 2}, f \in {0, 1}}

(***************************************************************************)
(* State.  gateway is the RpcClient; calls[c] is one query or write call   *)
(* on it: where it stands (idle, awaiting its reply, done), what it was    *)
(* given, every invocation it made of the transport (net), the reply or    *)
(* the transport failure it got, and its result.  wire is the reply put    *)
(* through both the gateway and the TryFrom conversion; asm is that        *)
(* conversion's result.                                                    *)
(***************************************************************************)
Calls == 1..MaxCalls

\* RpcClientBuilder::build
Built ==
    [raw_client |-> "StorageServiceClient", rpc_opts |-> [read_timeout |-> "read_timeout"]]

NoOutcome == Failed(NoError, 0, 0)

NoCtx == [tenant |-> <<>>, token |-> ""]

NoReq == [metrics |-> <<>>, ql |-> ""]

IdleCall ==
    [pc |-> "idle", op |-> "none", ctx |-> NoCtx, req |-> NoReq, net |-> <<>>,
     reply |-> NoReply, failure |-> "", outcome |-> NoOutcome]

NotConverted == [ran |-> FALSE, res |-> NoOutcome]

\* The tenant "pub", and a tenant with a line feed in it.
ValidCtx == [tenant |-> <<112, 117, 98>>, token |-> "t"]

InvalidCtx == [tenant |-> <<112, 10>>, token |-> "t"]

Contexts == {ValidCtx, InvalidCtx}

QueryRequests == {[metrics |-> <<"cpu">>, ql |-> "select * from cpu"]}

\* WriteRequestPb: one entry per metric.
WriteRequests == {[metrics |-> <<[metric |-> "cpu"], [metric |-> "mem"]>>, ql |-> ""]}

\* What the transport reports instead of a reply.
TransportFailures == {"connection refused", "deadline exceeded", "malformed frame"}

\* The *_async_opt call with the call option made: it either fails at once
\* (issued = FALSE) or leaves the call awaiting its reply.
Send(call, call_opt, issued) ==
    LET sent == [call EXCEPT !.net = Append(@, [method |-> call.op, req |-> call.req,
                                                opt |-> call_opt])]
    IN  IF issued THEN [sent EXCEPT !.pc = "awaiting"]
        ELSE [sent EXCEPT !.pc = "done", !.failure = "call not issued",
                          !.outcome = Failed(FromGrpcError("call not issued"), 0, 0)]

\* `make_call_option(ctx)?`: its error ends the call before anything is sent.
WithCallOption(call, call_opt, issued) ==
    IF ~call_opt.ok THEN [call EXCEPT !.pc = "done", !.outcome = Failed(call_opt.err, 0, 0)]
    ELSE Send(call, call_opt.val, issued)

\* The head of query and of write: make_call_option, then the call.
Issue(self, call, op, ctx, req_pb, issued) ==
    WithCallOption([call EXCEPT !.op = op, !.ctx = ctx, !.req = req_pb],
                   MakeCallOption(self, ctx), issued)

\* RpcClient::query up to its await
QueryStart(c, ctx, req, issued) ==
    /\ calls[c].pc = "idle"
    /\ calls' = [calls EXCEPT ![c] =
                    Issue(gateway, @, "query", ctx, ToQueryRequestPb(req), issued)]
    /\ UNCHANGED <<gateway, wire, asm>>

\* RpcClient::write up to its await
WriteStart(c, ctx, req_pb, issued) ==
    /\ calls[c].pc = "idle"
    /\ calls' = [calls EXCEPT ![c] = Issue(gateway, @, "write", ctx, req_pb, issued)]
    /\ UNCHANGED <<gateway, wire, asm>>

\* The await of either call ends with a transport failure.
AwaitFail(c, e) ==
    /\ calls[c].pc = "awaiting"
    /\ calls' = [calls EXCEPT ![c] = [@ EXCEPT !.pc = "done", !.failure = e,
                                                !.outcome = Failed(FromGrpcError(e), 0, 0)]]
    /\ UNCHANGED <<gateway, wire, asm>>

\* QueryDone reading the reply from a slot the calls share: the reply of a
\* query that completed earlier, when there is one.
QueryDone_SharedReply(c, resp) ==
    /\ calls[c].pc = "awaiting"
    /\ calls[c].op = "query"
    /\ resp.kind = "query"
    /\ LET earlier == {o \in Calls : o # c /\ calls[o].pc = "done" /\ calls[o].op = "query"
                                      /\ calls[o].reply.kind = "query"}
           read == IF earlier = {} THEN resp ELSE calls[CHOOSE o \in earlier : TRUE].reply
       IN  calls' = [calls EXCEPT ![c] = [@ EXCEPT !.pc = "done", !.reply = resp,
                                                    !.outcome = QueryOutcome(read)]]
    /\ UNCHANGED <<gateway, wire, asm>>

\* RpcClient::query from its reply on
QueryDone(c, resp) ==
    /\ calls[c].pc = "awaiting"
    /\ calls[c].op = "query"
    /\ resp.kind = "query"
    /\ calls' = [calls EXCEPT ![c] = [@ EXCEPT !.pc = "done", !.reply = resp,
                                                !.outcome = QueryOutcome(resp)]]
    /\ UNCHANGED <<gateway, wire, asm>>

\* RpcClient::write from its reply on
WriteDone(c, resp) ==
    /\ calls[c].pc = "awaiting"
    /\ calls[c].op = "write"
    /\ resp.kind = "write"
    /\ calls' = [calls EXCEPT ![c] = [@ EXCEPT !.pc = "done", !.reply = resp,
                                                !.outcome = WriteOutcome(calls[c].req, resp)]]
    /\ UNCHANGED <<gateway, wire, asm>>

\* QueryResponse::try_from(wire)
Convert ==
    /\ ~asm.ran
    /\ wire.kind = "query"
    /\ asm' = [ran |-> TRUE, res |-> TryFromPb(wire)]
    /\ UNCHANGED <<gateway, calls, wire>>

(***************************************************************************)
(* Spec: MaxCalls calls issued concurrently on one gateway, their replies  *)
(* and failures arriving in any order.                                     *)
(***************************************************************************)
ConcQueryReplies ==
    {QueryReply([code |-> OkCode, error |-> ""], EmptyContent, <<>>, 5),
     QueryReply([code |-> OkCode, error |-> ""], Json(ScenarioSchema),
                <<EncodeRow(ScenarioSchema.sub, SampleRow(ScenarioSchema.sub, 1))>>, 0),
     QueryReply([code |-> OkCode, error |-> ""], GarbageContent, <<>>, 0),
     QueryReply([code |-> 500, error |-> "overloaded"], Json(ScenarioSchema), <<<<0>>>>, 0)}

ConcWriteReplies ==
    {WriteReply([code |-> OkCode, error |-> ""], 2, 1),
     WriteReply([code |-> 500, error |-> "overloaded"], 0, 0)}

Init ==
    /\ gateway = Built
    /\ calls = [c \in Calls |-> IdleCall]
    /\ wire = NoReply
    /\ asm = NotConverted

Next ==
    \E c \in Calls :
        \/ \E ctx \in Contexts, req \in QueryRequests, issued \in BOOLEAN :
              QueryStart(c, ctx, req, issued)
        \/ \E ctx \in Contexts, req \in WriteRequests, issued \in BOOLEAN :
              WriteStart(c, ctx, req, issued)
        \/ \E e \in TransportFailures : AwaitFail(c, e)
        \/ \E resp \in ConcQueryReplies : QueryDone(c, resp)
        \/ \E resp \in ConcWriteReplies : WriteDone(c, resp)

Spec == Init /\ [][Next]_vars

(***************************************************************************)
(* SpecReply: one reply, any of the replies of the input sets, put through *)
(* the TryFrom conversion and through one call on the gateway.             *)
(***************************************************************************)
InitReply ==
    /\ gateway = Built
    /\ calls = [c \in Calls |-> IdleCall]
    /\ wire \in QueryReplies \cup WriteReplies
    /\ asm = NotConverted

NextReply ==
    \/ \E req \in QueryRequests : QueryStart(1, ValidCtx, req, TRUE)
    \/ \E req \in WriteRequests : WriteStart(1, ValidCtx, req, TRUE)
    \/ QueryDone(1, wire)
    \/ WriteDone(1, wire)
    \/ Convert

SpecReply == InitReply /\ [][NextReply]_vars

(***************************************************************************)
(* Properties.  An assembly is a reply pb together with the result out of  *)
(* putting it through the assembler: the TryFrom conversion of wire, or a  *)
(* query call that got a reply with an ok header.                          *)
(***************************************************************************)
QueryGotReply(k) == k.pc = "done" /\ k.op = "query" /\ k.reply.kind = "query"

WriteGotReply(k) == k.pc = "done" /\ k.op = "write" /\ k.reply.kind = "write"

OkHeader(pb) == pb.header.code = OkCode

\* P holds of the conversion made and of every query call that reached the assembler.
EveryAssembly(P(_, _)) ==
    /\ asm.ran => P(wire, asm.res)
    /\ \A c \in Calls :
          (QueryGotReply(calls[c]) /\ OkHeader(calls[c].reply)) =>
              P(calls[c].reply, calls[c].outcome)

SameDatum(a, b) == a.d = b.d /\ a.v = b.v

SameDatums(a, b) == Len(a) = Len(b) /\ \A j \in 1..Len(a) : SameDatum(a[j], b[j])

\* The schema text of pb parses to a record whose fields all resolve.
Resolves(pb) ==
    /\ AvroParseStr(pb.schema_content).ok
    /\ SchemaTryFrom(pb.schema_content.tree).ok

\* Buffer i of pb, decoded on its own against the schema of pb.
RowAlone(pb, i) == ParseOneRow(pb.schema_content.tree, pb.rows[i], RowWithColumnNum(0))

\* C1: for query and for write, a reply whose header code is not the ok code
\* fails the call with a ServerError of exactly the header's code and
\* message, whatever else the reply holds, and no schema text is parsed and
\* no row buffer decoded for it.
C1_NonOkHeaderIsServerError ==
    \A c \in Calls :
        LET k == calls[c]
        IN  ((QueryGotReply(k) \/ WriteGotReply(k)) /\ ~OkHeader(k.reply)) =>
                /\ ~k.outcome.ok
                /\ k.outcome.err.kind = "Server"
                /\ k.outcome.err.code = k.reply.header.code
                /\ k.outcome.err.msg = k.reply.header.error
                /\ k.outcome.parses = 0
                /\ k.outcome.decodes = 0

\* A query got a non-ok reply that carries a parsable schema and row buffers.
C1_Witness ==
    /\ QueryGotReply(calls[1])
    /\ ~OkHeader(wire)
    /\ wire.schema_content = Json(ScenarioSchema)
    /\ Len(wire.rows) = 2
    /\ wire.affected_rows = 5
    /\ calls[1].outcome.err = ErrorServer(500, "overloaded")

C2_RowsFaithful(pb, out) ==
    (pb.schema_content.text # "" /\ out.ok) =>
        /\ Len(out.val.rows) = Len(pb.rows)
        /\ \A i \in 1..Len(pb.rows) :
              /\ Len(out.val.rows[i].datums) = NumCols(out.val.schema)
              /\ RowAlone(pb, i).ok
              /\ SameDatums(out.val.rows[i].datums, RowAlone(pb, i).row.datums)

\* C2: a successful assembly of a reply with a non-empty schema text and N
\* row buffers returns exactly N rows, each of exactly num_cols() datums,
\* row i being the decoding of buffer i.
C2_RowsInInputOrder == EveryAssembly(C2_RowsFaithful)

\* Two different buffers of a two-column schema were assembled.
C2_Witness ==
    /\ asm.ran
    /\ asm.res.ok
    /\ Len(wire.rows) = 2
    /\ wire.rows[1] # wire.rows[2]
    /\ NumCols(asm.res.val.schema) = 2
    /\ Len(asm.res.val.rows) = 2

C3_Acknowledgement(pb, out) ==
    (OkHeader(pb) /\ pb.schema_content.text = "") =>
        /\ out.ok
        /\ out.val.schema = SchemaDefault
        /\ out.val.rows = <<>>
        /\ out.val.affected_rows = pb.affected_rows

\* C3: an ok-header reply with an empty schema text gives, from the
\* assembler and from the gateway's query alike, a response with an empty
\* schema, no rows and the reply's affected_rows, whatever row buffers the
\* reply carries.
C3_EmptySchemaContent == EveryAssembly(C3_Acknowledgement)

\* Both the conversion and a query handled such a reply with row buffers in it.
C3_Witness ==
    /\ asm.ran
    /\ QueryGotReply(calls[1])
    /\ OkHeader(wire)
    /\ wire.schema_content.text = ""
    /\ Len(wire.rows) = 2
    /\ wire.affected_rows = 5
    /\ asm.res.val.affected_rows = 5
    /\ calls[1].outcome.val.affected_rows = 5

\* The field schemas C4 names: a union that is not [null, T], or one of the
\* composite kinds.
C4_Rejectable(s) ==
    \/ s.kind = "Union" /\ (Len(s.sub) # 2 \/ s.sub[1].kind # "Null")
    \/ s.kind \in {"Array", "Map", "Record", "Enum", "Fixed", "Decimal", "Date",
                   "TimeMicros", "TimestampMicros", "Duration", "Uuid"}

C4_HasRejectable(pb) ==
    /\ AvroParseStr(pb.schema_content).ok
    /\ pb.schema_content.tree.kind = "Record"
    /\ \E j \in 1..Len(pb.schema_content.tree.sub) :
          C4_Rejectable(pb.schema_content.tree.sub[j].schema)

C4_NoDecode(pb, out) == C4_HasRejectable(pb) => (~out.ok /\ out.decodes = 0)

\* C4: a schema with a field that is a malformed union or a composite kind
\* fails the assembly at schema resolution, before any row buffer is
\* decoded, however many row buffers the reply holds.
C4_RejectedBeforeDecode == EveryAssembly(C4_NoDecode)

\* A reply of two row buffers whose schema has a composite second field
\* (after a supported first one) was converted.
C4_Witness ==
    /\ asm.ran
    /\ C4_HasRejectable(wire)
    /\ Len(wire.schema_content.tree.sub) = 2
    /\ wire.schema_content.tree.sub[2].schema.kind = "Array"
    /\ Len(wire.rows) = 2
    /\ ~asm.res.ok

C5_AllOrNothing(pb, out) ==
    (pb.schema_content.text # "" /\ Resolves(pb)
     /\ \E i \in 1..Len(pb.rows) : ~RowAlone(pb, i).ok) =>
        (~out.ok /\ out.val = <<>>)

\* C5: if any one row buffer fails to decode, at any position, the assembly
\* returns an error and no response: never a response of some of the rows.
C5_DecodeFailureAborts == EveryAssembly(C5_AllOrNothing)

\* The first buffer decodes, the second does not, and the conversion failed
\* having tried both.
C5_Witness ==
    /\ asm.ran
    /\ Resolves(wire)
    /\ Len(wire.rows) = 2
    /\ RowAlone(wire, 1).ok
    /\ ~RowAlone(wire, 2).ok
    /\ ~asm.res.ok
    /\ asm.res.decodes = 2

\* The Datum variant of each ColumnDataType, as C6 lists them.
C6_VariantOf(data_type) ==
    CASE data_type = "Null" -> "Null"
      [] data_type = "TimestampMillis" -> "Timestamp"
      [] data_type = "Double" -> "Double"
      [] data_type = "Float" -> "Float"
      [] data_type = "Bytes" -> "Varbinary"
      [] data_type = "String" -> "String"
      [] data_type = "Int64" -> "Int64"
      [] data_type = "Int32" -> "Int32"
      [] data_type = "Boolean" -> "Boolean"

\* A union value counts as its inner value.
C6_Inner(value) == IF value.t = "Union" THEN value.v ELSE value

\* Every row buffer of pb that is the encoding of a sample row decodes to
\* datums of the sample's values, datum j of the variant Variant(j, value).
C6_RoundTrip(pb, out, Variant(_, _)) ==
    (pb.schema_content.tree \in SupportedRecords /\ out.ok) =>
        LET fields == pb.schema_content.tree.sub
        IN  \A i \in 1..Len(pb.rows), s \in 1..2 :
                pb.rows[i] = EncodeRow(fields, SampleRow(fields, s)) =>
                    \A j \in 1..Len(fields) :
                        LET d == out.val.rows[i].datums[j]
                            sv == C6_Inner(SampleValue(fields[j].schema, s))
                        IN  /\ d.d = Variant(out.val.schema.column_schemas[j].data_type, sv)
                            /\ d.v = sv.v

C6_TypeVariant(data_type, sv) == C6_VariantOf(data_type)

C6_TypeVariantOrNull(data_type, sv) ==
    IF sv.t = "Null" THEN "Null" ELSE C6_VariantOf(data_type)

C6_AsClaimed(pb, out) == C6_RoundTrip(pb, out, C6_TypeVariant)

C6_AsAmended(pb, out) == C6_RoundTrip(pb, out, C6_TypeVariantOrNull)

\* C6 as claimed: for a field of a supported kind, or a nullable union of
\* one, the datum decoded has the encoded value and the variant of the
\* ColumnDataType resolved for the field.
C6_DatumVariantIsColumnType == EveryAssembly(C6_AsClaimed)

\* C6 as amended: the datum decoded has the encoded value, and the variant of
\* the ColumnDataType resolved for the field unless the field is a nullable
\* union whose encoded branch is null, which decodes to Null.
C6_DatumVariantIsColumnTypeOrNull == EveryAssembly(C6_AsAmended)

\* record{ts: nullable timestamp, value: double} with the rows
\* {present(1000), 3.14} and {null, 0.0} was converted.
C6_Witness ==
    /\ asm.ran
    /\ asm.res.ok
    /\ wire.schema_content = Json(ScenarioSchema)
    /\ wire.rows = <<EncodeRow(ScenarioSchema.sub, SampleRow(ScenarioSchema.sub, 1)),
                     EncodeRow(ScenarioSchema.sub, SampleRow(ScenarioSchema.sub, 2))>>
    /\ SameDatums(asm.res.val.rows[1].datums,
                  <<Datum("Timestamp", 1000), Datum("Double", Double_3_14)>>)
    /\ asm.res.val.rows[2].datums[1].d = "Null"

\* C7: for query and for write, a failure that arises before the reply's
\* header is checked (an invalid tenant, which ends the call before anything
\* is sent; a call that cannot be issued; a refused connection, a malformed
\* frame or a timeout while awaiting the reply) ends the call as a
\* client-side failure, never as a ServerError.
C7_EarlyFailureIsClientSide ==
    \A c \in Calls :
        LET k == calls[c]
        IN  /\ (k.pc # "idle" /\ ~AddStrLegal(k.ctx.tenant)) =>
                  (k.pc = "done" /\ k.net = <<>> /\ ~k.outcome.ok
                   /\ k.outcome.err.kind = "Client")
            /\ (k.pc = "done" /\ k.reply.kind = "none") =>
                  (~k.outcome.ok /\ k.outcome.err.kind = "Client")

\* One call ended on its invalid tenant, another on a timeout.
C7_Witness ==
    /\ calls[1].pc = "done"
    /\ calls[1].ctx = InvalidCtx
    /\ calls[1].outcome.err.kind = "Client"
    /\ calls[2].pc = "done"
    /\ calls[2].failure = "deadline exceeded"
    /\ calls[2].outcome.err.kind = "Client"

C8_NoColumns(pb, out) ==
    (out.ok /\ NumCols(out.val.schema) = 0) =>
        (out.val.rows = <<>> /\ out.val.affected_rows = pb.affected_rows)

\* C8: every response the conversion of a reply returns, for any schema text,
\* row buffers and affected_rows, has no rows and the reply's affected_rows
\* if its schema has no columns; a record of zero fields included.
C8_NoColumnsMeansAcknowledgement == asm.ran => C8_NoColumns(wire, asm.res)

\* The assembly of pb fails on its schema, or on one of its rows.
C9_SchemaFails(pb) == pb.schema_content.text # "" /\ ~Resolves(pb)

C9_RowFails(pb) ==
    /\ pb.schema_content.text # ""
    /\ Resolves(pb)
    /\ \E i \in 1..Len(pb.rows) : ~RowAlone(pb, i).ok

\* C9 as claimed: a query on an ok-header reply that fails on the schema
\* surfaces a SchemaError, one that fails on a row a DecodeError, neither a
\* ClientError nor a ServerError.
C9_SchemaAndDecodeErrors ==
    \A c \in Calls :
        LET k == calls[c]
        IN  (QueryGotReply(k) /\ OkHeader(k.reply)) =>
                /\ C9_SchemaFails(k.reply) => (~k.outcome.ok /\ k.outcome.err.kind = "Schema")
                /\ C9_RowFails(k.reply) => (~k.outcome.ok /\ k.outcome.err.kind = "Decode")

\* C9 as amended: a query on an ok-header reply that fails on the schema or
\* on a row surfaces a ClientError carrying the failure's message, never a
\* ServerError.
C9_AssemblyFailureIsClientError ==
    \A c \in Calls :
        LET k == calls[c]
        IN  (QueryGotReply(k) /\ OkHeader(k.reply)
             /\ (C9_SchemaFails(k.reply) \/ C9_RowFails(k.reply))) =>
                (~k.outcome.ok /\ k.outcome.err.kind = "Client" /\ k.outcome.err.msg # "")

\* A query got an ok reply whose second row buffer does not decode.
C9_Witness ==
    /\ QueryGotReply(calls[1])
    /\ OkHeader(wire)
    /\ C9_RowFails(wire)
    /\ RowAlone(wire, 1).ok
    /\ calls[1].outcome.err.kind = "Client"

SameOutcome(a, b) ==
    /\ a.ok = b.ok
    /\ a.err = b.err
    /\ a.parses = b.parses
    /\ a.decodes = b.decodes
    /\ a.ok => a.val = b.val

\* The result of call k had it run alone: from its own context, request and
\* reply (or transport failure).
C10_Alone(k) ==
    IF ~AddStrLegal(k.ctx.tenant) THEN Failed(ErrorClient("invalid tenant"), 0, 0)
    ELSE IF k.reply.kind = "none" THEN Failed(ErrorClient(k.failure), 0, 0)
    ELSE IF k.op = "query" THEN QueryOutcome(k.reply)
    ELSE WriteOutcome(k.req, k.reply)

\* C10 as claimed: of calls issued concurrently on one gateway, whatever the
\* order of their replies, each invokes the transport exactly once, has the
\* result it would have had alone, and leaves the gateway as it was.
C10_ExactlyOneNetworkCall ==
    /\ gateway = Built
    /\ \A c \in Calls :
          calls[c].pc = "done" =>
              /\ Len(calls[c].net) = 1
              /\ SameOutcome(calls[c].outcome, C10_Alone(calls[c]))

\* C10 as amended: each call invokes the transport at most once: once if its
\* metadata could be built, never if not (an invalid tenant); it has the
\* result it would have had alone, and leaves the gateway as it was.
C10_AtMostOneNetworkCall ==
    /\ gateway = Built
    /\ \A c \in Calls :
          /\ Len(calls[c].net) <= 1
          /\ calls[c].pc # "idle" =>
                (Len(calls[c].net) = 1 <=> AddStrLegal(calls[c].ctx.tenant))
          /\ calls[c].pc = "done" => SameOutcome(calls[c].outcome, C10_Alone(calls[c]))

\* Two queries on the gateway both completed, with different replies.
C10_Witness ==
    /\ QueryGotReply(calls[1])
    /\ QueryGotReply(calls[2])
    /\ calls[1].outcome.ok
    /\ ~calls[2].outcome.ok
    /\ Len(calls[1].net) = 1
    /\ Len(calls[2].net) = 1

====
